---- MODULE Spec2Model ----
(***************************************************************************)
(* Model of the chart engine (src/chart-engine/main.py): the request       *)
(* handler generate_chart, the helpers convert_to_dataframe and            *)
(* add_indicators, and the background task cleanup_resources.              *)
(*                                                                         *)
(* A bar is identified by its position in the list the client supplied.    *)
(* A parameter value is a tagged value: Num(i) for a JSON integer, Str(s)  *)
(* for a JSON string.  An indicator series is represented by its column    *)
(* name and by the number of non-NaN points it holds.                      *)
(***************************************************************************)
EXTENDS Integers, Sequences, FiniteSets, TLC

\* ---------------------------------------------------------------- bounds

\* Number of request slots of the server.
NumReqs == 2
\* Longest indicator mapping of the exhaustive input family (ShortLists).
MaxShort == 2
\* Longest indicator mapping of the paired input family (PairLists).
MaxPair == 2
\* Most bars and longest period of the SMA input family (SmaRequests).
MaxSmaBars == 8
MaxSmaPeriod == 9
\* Most bars, highest close price and longest period of the RSI input family
\* (RsiRequests).
MaxRsiBars == 6
MaxClose == 3
MaxRsiPeriod == 3

\* ------------------------------------------------------ program constants

\* generate_chart: "if len(request.data) > 400" / "request.data[-400:]"
MaxDataPoints == 400
\* ChartRequest.data: max_items=500
MaxItems == 500
\* add_indicators: "if total_indicators > 8" / "[:8]"
MaxIndicators == 8
\* add_indicators: "if data_points < 5"
MinDataPoints == 5
\* add_indicators: "next_panel = 2" / generate_chart: "panel_count = 2"
FirstOscillatorPanel == 2
\* generate_chart: plot_kwargs['volume_panel'] = 1
VolumePanel == 1
\* generate_chart: panel_ratios = [4]
MainRatio == 4
\* generate_chart: panel_ratios.append(1)
OtherRatio == 1

\* ------------------------------------------------------------ Python values

Num(i) == [num |-> i]
Str(s) == [str |-> s]
IsNum(v) == "num" \in DOMAIN v

\* dict.get(key, default)
Get(params, key, default) == IF key \in DOMAIN params THEN params[key] ELSE default

Min(a, b) == IF a <= b THEN a ELSE b
Max(a, b) == IF a >= b THEN a ELSE b

\* list[-k:] : the last k elements, in order (the whole list when it is shorter)
Tail_(s, k) == IF Len(s) <= k THEN s ELSE SubSeq(s, Len(s) - k + 1, Len(s))
\* list[:k] : the first k elements, in order
Head_(s, k) == IF Len(s) <= k THEN s ELSE SubSeq(s, 1, k)

\* str.lower() on the indicator names of the input families
Lower(name) ==
    CASE name = "RSI" -> "rsi"
      [] OTHER -> name

\* --------------------------------------------------- pandas window functions

\* Series.rolling(window=w) raises ValueError for a negative window.
RollingRaises(w) == w < 0
\* Number of non-NaN points of rolling(window=w).<mean|min|max>() over a series
\* whose first `lead` of n points are NaN and whose other points are finite.
RollingValid(n, lead, w) ==
    IF w = 0 THEN 0 ELSE Max(0, n - lead - w + 1)
\* rolling(window=w).std() (ddof=1): a window of one point has no deviation.
RollingStdValid(n, w) ==
    IF w <= 1 THEN 0 ELSE Max(0, n - w + 1)
\* Series.ewm(span=s, adjust=False) raises ValueError unless span >= 1.
EwmRaises(span) == span < 1

\* ------------------------------------------------------------ add_indicators

\* mpf.make_addplot(series, panel=..., ...): the addplot entry handed to the
\* renderer.  `data` is the column plotted, `valid` its number of non-NaN
\* points, `key` the requested indicator name whose branch created it.
make_addplot(key, col, valid, panel) ==
    [data |-> col, valid |-> valid, panel |-> panel, key |-> key]

\* make_addplot's default panel
MainPanel == 0

\* Outcome of one indicator branch: the plots appended, or an exception.
Done(plots) == [raised |-> FALSE, plots |-> plots]
Raise == [raised |-> TRUE, plots |-> <<>>]

\* Mutant of Sma: the window is capped by len(df) instead of len(df) - 1.
SmaCappedByLength(key, params, n) ==
    LET period == Get(params, "period", Num(20)) IN
    IF ~IsNum(period) THEN Raise
    ELSE LET effective_period == Min(period.num, Max(1, n)) IN
         IF effective_period >= 1
         THEN IF RollingValid(n, 0, effective_period) > 0
              THEN Done(<<make_addplot(key, "SMA",
                            RollingValid(n, 0, effective_period), MainPanel)>>)
              ELSE Done(<<>>)
         ELSE Done(<<>>)

\* elif indicator_name.lower() == 'sma'
Sma(key, params, n) ==
    LET period == Get(params, "period", Num(20)) IN
    IF ~IsNum(period) THEN Raise
    ELSE LET effective_period == Min(period.num, Max(1, n - 1)) IN
         IF effective_period >= 1
         THEN IF RollingValid(n, 0, effective_period) > 0
              THEN Done(<<make_addplot(key, "SMA",
                            RollingValid(n, 0, effective_period), MainPanel)>>)
              ELSE Done(<<>>)
         ELSE Done(<<>>)

\* elif indicator_name.lower() == 'ema'
Ema(key, params, n) ==
    LET period == Get(params, "period", Num(20)) IN
    IF ~IsNum(period) THEN Raise
    ELSE LET effective_period == Min(period.num, Max(1, n - 1)) IN
         IF effective_period >= 1
         THEN IF EwmRaises(effective_period) THEN Raise
              ELSE IF n > 0
                   THEN Done(<<make_addplot(key, "EMA", n, MainPanel)>>)
                   ELSE Done(<<>>)
         ELSE Done(<<>>)

RsiPanel == 2

\* elif indicator_name.lower() == 'rsi'
Rsi(key, params, n) ==
    LET period == Get(params, "period", Num(14)) IN
    IF ~IsNum(period) THEN Raise
    ELSE LET effective_period == Min(period.num, Max(2, n - 1)) IN
         IF n >= effective_period + 1
         THEN IF RollingRaises(effective_period) THEN Raise
              ELSE IF RollingValid(n, 0, effective_period) > 0
                   THEN Done(<<make_addplot(key, "RSI",
                                 RollingValid(n, 0, effective_period), RsiPanel)>>)
                   ELSE Done(<<>>)
         ELSE Done(<<>>)

MacdPanel == 3

\* elif indicator_name.lower() == 'macd'
Macd(key, params, n) ==
    LET pfast == Get(params, "fast", Num(12))
        pslow == Get(params, "slow", Num(26))
        psignal == Get(params, "signal", Num(9))
    IN
    IF ~IsNum(pfast) \/ ~IsNum(pslow) \/ ~IsNum(psignal) THEN Raise
    ELSE LET fast == Min(pfast.num, n \div 4)
             slow == Min(pslow.num, n \div 3)
             signal == Min(psignal.num, n \div 5)
         IN
         IF n >= Max(Max(fast, slow), signal) + 1
         THEN IF EwmRaises(fast) \/ EwmRaises(slow) \/ EwmRaises(signal) THEN Raise
              ELSE IF n > 0
                   THEN Done(<<make_addplot(key, "MACD_line", n, MacdPanel),
                               make_addplot(key, "MACD_signal", n, MacdPanel),
                               make_addplot(key, "MACD_histogram", n, MacdPanel)>>)
                   ELSE Done(<<>>)
         ELSE Done(<<>>)

\* elif indicator_name.lower() == 'bollinger'
Bollinger(key, params, n) ==
    LET period == Get(params, "period", Num(20))
        std_dev == Get(params, "std_dev", Num(2))
    IN
    IF ~IsNum(period) THEN Raise
    ELSE LET window == Min(period.num, Max(2, n - 1)) IN
         IF n >= window
         THEN IF RollingRaises(window) THEN Raise
              ELSE IF ~IsNum(std_dev) THEN Raise
              ELSE IF RollingValid(n, 0, window) > 0 /\ RollingStdValid(n, window) > 0
                   THEN Done(<<make_addplot(key, "BB_upper",
                                 RollingStdValid(n, window), MainPanel),
                               make_addplot(key, "BB_middle",
                                 RollingValid(n, 0, window), MainPanel),
                               make_addplot(key, "BB_lower",
                                 RollingStdValid(n, window), MainPanel)>>)
                   ELSE Done(<<>>)
         ELSE Done(<<>>)

\* Mutant of AtrPanel: ATR drawn on the MACD panel.
AtrPanelOfMacd == MacdPanel

AtrPanel == 4

\* elif indicator_name.lower() == 'atr'
Atr(key, params, n) ==
    LET period == Get(params, "period", Num(14)) IN
    IF ~IsNum(period) THEN Raise
    ELSE LET effective_period == Min(period.num, Max(2, n - 1)) IN
         IF n >= effective_period + 1
         THEN IF RollingRaises(effective_period) THEN Raise
              ELSE IF RollingValid(n, 0, effective_period) > 0
                   THEN Done(<<make_addplot(key, "ATR",
                                 RollingValid(n, 0, effective_period), AtrPanel)>>)
                   ELSE Done(<<>>)
         ELSE Done(<<>>)

StochasticPanel == 5

\* elif indicator_name.lower() == 'stochastic'
\* flat: high = low on every bar, so that high_max - low_min = 0 and %K is NaN
\* throughout; otherwise high > low on every bar and %K is finite wherever
\* its window is full.
Stochastic(key, params, n, flat) ==
    LET k_period == Get(params, "k_period", Num(14))
        d_period == Get(params, "d_period", Num(3))
    IN
    IF ~IsNum(k_period) \/ ~IsNum(d_period) THEN Raise
    ELSE LET effective_k == Min(k_period.num, Max(2, n - 1))
             effective_d == Min(d_period.num, Max(1, n - 1))
             k_valid == IF flat THEN 0 ELSE RollingValid(n, 0, effective_k)
             d_valid == IF flat THEN 0
                        ELSE RollingValid(n, n - RollingValid(n, 0, effective_k),
                                          effective_d)
         IN
         IF n >= effective_k + effective_d
         THEN IF RollingRaises(effective_k) \/ RollingRaises(effective_d) THEN Raise
              ELSE IF k_valid > 0 /\ d_valid > 0
                   THEN Done(<<make_addplot(key, "STOCH_K", k_valid, StochasticPanel),
                               make_addplot(key, "STOCH_D", d_valid, StochasticPanel)>>)
                   ELSE Done(<<>>)
         ELSE Done(<<>>)

\* The if/elif chain of the loop body, for one (indicator_name, params) item.
Branch(ind, n, flat) ==
    LET name == Lower(ind.name) IN
    CASE name = "sma" -> Sma(ind.name, ind.params, n)
      [] name = "ema" -> Ema(ind.name, ind.params, n)
      [] name = "rsi" -> Rsi(ind.name, ind.params, n)
      [] name = "macd" -> Macd(ind.name, ind.params, n)
      [] name = "bollinger" -> Bollinger(ind.name, ind.params, n)
      [] name = "atr" -> Atr(ind.name, ind.params, n)
      [] name = "stochastic" -> Stochastic(ind.name, ind.params, n, flat)
      [] OTHER -> Done(<<>>)

\* Mutant of TryBranch: no except clause, the exception leaves the loop.
TryBranchUncaught(acc, ind, n, flat) ==
    LET out == Branch(ind, n, flat) IN
    [addplots |-> acc.addplots \o out.plots,
     processed |-> Append(acc.processed, ind.name),
     raised |-> out.raised]

\* try: processed += 1; <branch>
\* except Exception: log and go on with the next indicator.
\* acc = [addplots, processed, raised]; `raised` says that an exception left
\* the loop body, which ends the loop and the call.
TryBranch(acc, ind, n, flat) ==
    LET out == Branch(ind, n, flat) IN
    [addplots |-> acc.addplots \o out.plots,
     processed |-> Append(acc.processed, ind.name),
     raised |-> FALSE]

\* for indicator_name, params in indicators.items(): ...
RECURSIVE Loop(_, _, _, _, _)
Loop(acc, indicators, i, n, flat) ==
    IF i > Len(indicators) \/ acc.raised THEN acc
    ELSE Loop(TryBranch(acc, indicators[i], n, flat), indicators, i + 1, n, flat)

\* A value of the 'RSI' column: NaN, or the quotient num / den of two numbers
\* a * E + b, written <<a, b>>, where E = 1 / 1e-10 is the inverse of the
\* constant that replaces a zero average loss.  The prices of the model are
\* integers far below E, so two such numbers compare as their pairs do.
NaN == [nan |-> TRUE, num |-> <<0, 0>>, den |-> <<0, 1>>]
Quot(num, den) == [nan |-> FALSE, num |-> num, den |-> den]

\* delta = df['close'].diff(); gain = delta.where(delta > 0, 0)
\* The first row has no delta (NaN), which `where` replaces by 0 as well.
Gain(close, j) ==
    IF j >= 2 /\ close[j] > close[j - 1] THEN close[j] - close[j - 1] ELSE 0
\* loss = -delta.where(delta < 0, 0)
Loss(close, j) ==
    IF j >= 2 /\ close[j] < close[j - 1] THEN close[j - 1] - close[j] ELSE 0

\* The sums behind gain.rolling(window).mean() and loss.rolling(window).mean()
\* for the window of rows lo..hi.
RECURSIVE SumGain(_, _, _)
SumGain(close, lo, hi) ==
    IF lo > hi THEN 0 ELSE Gain(close, hi) + SumGain(close, lo, hi - 1)
RECURSIVE SumLoss(_, _, _)
SumLoss(close, lo, hi) ==
    IF lo > hi THEN 0 ELSE Loss(close, hi) + SumLoss(close, lo, hi - 1)

\* rs = avg_gain / avg_loss.replace(0, 1e-10), with avg_gain = gains / w and
\* avg_loss = losses / w.
Rs(gains, losses, w) ==
    IF losses = 0 THEN Quot(<<gains, 0>>, <<0, w>>)
    ELSE Quot(<<0, gains>>, <<0, losses>>)

\* rsi_values = 100 - (100 / (1 + rs)), that is 100 * rs.num / (rs.den + rs.num)
RsiValue(rs) ==
    Quot(<<100 * rs.num[1], 100 * rs.num[2]>>,
         <<rs.den[1] + rs.num[1], rs.den[2] + rs.num[2]>>)

\* rsi_values for the window w: NaN on the first w - 1 rows.
RsiValues(close, w) ==
    [i \in DOMAIN close |->
        IF i < w THEN NaN
        ELSE RsiValue(Rs(SumGain(close, i - w + 1, i),
                         SumLoss(close, i - w + 1, i), w))]

\* df['RSI'] after the loop over `indicators`: the values of the last 'rsi'
\* item that added its series (col: the column so far).
RECURSIVE RsiColumn(_, _, _, _)
RsiColumn(df, indicators, i, col) ==
    IF i > Len(indicators) THEN col
    ELSE LET ind == indicators[i]
             n == Len(df.index)
             out == Branch(ind, n, df.flat)
         IN RsiColumn(df, indicators, i + 1,
                IF Lower(ind.name) = "rsi" /\ ~out.raised /\ out.plots /= <<>>
                THEN RsiValues(df.close,
                               Min(Get(ind.params, "period", Num(14)).num,
                                   Max(2, n - 1)))
                ELSE col)

\* Mutant of LimitIndicators: the cut keeps one item too many.
LimitIndicatorsOffByOne(indicators) ==
    IF Len(indicators) > MaxIndicators
    THEN Head_(indicators, MaxIndicators + 1)
    ELSE indicators

\* indicators = {k: indicators[k] for k in list(indicators.keys())[:8]}
LimitIndicators(indicators) ==
    IF Len(indicators) > MaxIndicators
    THEN Head_(indicators, MaxIndicators)
    ELSE indicators

\* if data_points < 5: return addplots
Insufficient(n) == n < MinDataPoints

\* add_indicators(df, indicators): the plots returned, the names the loop
\* processed (the "Processing indicator i/n" log lines) in order, and whether
\* the call raised.
\* `RSI` is the column the call leaves in df.
add_indicators(df, indicators) ==
    LET n == Len(df.index)
        empty == [addplots |-> <<>>, processed |-> <<>>, raised |-> FALSE]
        out == IF Len(indicators) = 0 THEN empty
               ELSE IF Insufficient(n) THEN empty
               ELSE Loop(empty, LimitIndicators(indicators), 1, n, df.flat)
    IN [addplots |-> out.addplots, processed |-> out.processed,
        raised |-> out.raised,
        RSI |-> IF Len(indicators) = 0 \/ Insufficient(n) THEN df.RSI
                ELSE RsiColumn(df, LimitIndicators(indicators), 1, df.RSI)]

\* ------------------------------------------------------ convert_to_dataframe

\* The frame of the rows `data`: their close prices as the 'close' column.
Frame(data, close, flat) ==
    [index |-> data, close |-> [i \in DOMAIN data |-> close[data[i]]],
     flat |-> flat, RSI |-> <<>>]

\* Mutant of convert_to_dataframe: an empty list gives an empty frame
\* instead of an exception.
convert_to_dataframe_empty_frame(data, close, bad, flat) ==
    IF \E i \in DOMAIN data : data[i] \in bad
    THEN [raised |-> TRUE, df |-> Frame(<<>>, close, flat)]
    ELSE [raised |-> FALSE, df |-> Frame(data, close, flat)]

\* df = pd.DataFrame([d.dict() for d in data]) ... return df, or ValueError.
\* An empty list gives a frame without a 'datetime' column, so df['datetime']
\* raises KeyError; a datetime string that does not parse makes pd.to_datetime
\* raise.  Either is caught and raised again as ValueError.
\* df.index holds the bars in the order given; df.flat is a property of the
\* price columns (see Stochastic).
\* df.close is the 'close' column, df.RSI the 'RSI' column add_indicators adds
\* (<<>>: no such column).
convert_to_dataframe(data, close, bad, flat) ==
    IF Len(data) = 0 THEN [raised |-> TRUE, df |-> Frame(<<>>, close, flat)]
    ELSE IF \E i \in DOMAIN data : data[i] \in bad
         THEN [raised |-> TRUE, df |-> Frame(<<>>, close, flat)]
         ELSE [raised |-> FALSE, df |-> Frame(data, close, flat)]

\* ------------------------------------------------------------------- state

Reqs == 1..NumReqs

VARIABLES
    request,      \* request[r]: the ChartRequest slot r receives (or NoRequest)
    data,         \* data[r]: request.data as the handler sees it
    df,           \* df[r]: the DataFrame of the handler
    addplots,     \* addplots[r]: the addplot entries, in order
    processed,    \* processed[r]: the indicator names the loop processed
    plot_kwargs,  \* plot_kwargs[r]: the layout arguments of mpf.plot
    response,     \* response[r]: what the client gets
    exc,          \* exc[r]: the exception in flight and the step that raised it
    pc,           \* pc[r]: the handler's position
    figures,      \* pyplot's open figures, by the request that opened them
    bg_tasks,     \* requests whose cleanup_resources task is registered
    loop          \* the request whose coroutine the event loop runs (0: none)

vars == <<request, data, df, addplots, processed, plot_kwargs, response, exc,
          pc, figures, bg_tasks, loop>>

NoRequest == [absent |-> TRUE]
NoDf == [index |-> <<>>, close |-> <<>>, flat |-> FALSE, RSI |-> <<>>]
NoKwargs == [volume |-> FALSE, volume_panel |-> 0, panel_ratios |-> <<>>]
NoResponse == [status |-> 0]
NoExc == [type |-> "none", at |-> "none"]

\* ------------------------------------------------------------ generate_chart

\* The handler is a coroutine without an await: once the event loop starts it,
\* no other handler runs until it returns or raises.
Running(r) == loop = r

\* Request validation (ChartRequest.data, max_items): a longer list never
\* reaches the handler; the client gets 422.
Reject(r) ==
    /\ pc[r] = "idle" /\ request[r] /= NoRequest
    /\ Len(request[r].data) > MaxItems
    /\ pc' = [pc EXCEPT ![r] = "rejected"]
    /\ response' = [response EXCEPT ![r] = [status |-> 422]]
    /\ UNCHANGED <<request, data, df, addplots, processed, plot_kwargs, exc,
                   figures, bg_tasks, loop>>

\* Mutant of LimitData: the first 400 bars are kept instead of the last.
LimitDataHead(d) == IF Len(d) > MaxDataPoints THEN Head_(d, MaxDataPoints) ELSE d

\* background_tasks.add_task(cleanup_resources);
\* if len(request.data) > 400: request.data = request.data[-400:]
LimitData(d) == IF Len(d) > MaxDataPoints THEN Tail_(d, MaxDataPoints) ELSE d

Receive(r) ==
    /\ pc[r] = "idle" /\ request[r] /= NoRequest /\ loop = 0
    /\ Len(request[r].data) <= MaxItems
    /\ loop' = r
    /\ bg_tasks' = bg_tasks \cup {r}
    /\ data' = [data EXCEPT ![r] = LimitData(request[r].data)]
    /\ pc' = [pc EXCEPT ![r] = "convert"]
    /\ UNCHANGED <<request, df, addplots, processed, plot_kwargs, response, exc,
                   figures>>

\* df = convert_to_dataframe(request.data)
\* if df.empty: raise HTTPException(status_code=400, ...)
ConvertData(r) ==
    /\ pc[r] = "convert" /\ Running(r)
    /\ LET c == convert_to_dataframe(data[r], request[r].close, request[r].bad,
                                    request[r].flat) IN
       IF c.raised
       THEN /\ exc' = [exc EXCEPT ![r] = [type |-> "ValueError", at |-> "convert"]]
            /\ pc' = [pc EXCEPT ![r] = "except"]
            /\ df' = df
       ELSE IF Len(c.df.index) = 0
       THEN /\ exc' = [exc EXCEPT ![r] = [type |-> "HTTPException", at |-> "empty"]]
            /\ pc' = [pc EXCEPT ![r] = "except"]
            /\ df' = [df EXCEPT ![r] = c.df]
       ELSE /\ df' = [df EXCEPT ![r] = c.df]
            /\ pc' = [pc EXCEPT ![r] = "figure"]
            /\ exc' = exc
    /\ UNCHANGED <<request, data, addplots, processed, plot_kwargs, response,
                   figures, bg_tasks, loop>>

\* plt.figure(figsize=..., dpi=100)
OpenFigure(r) ==
    /\ pc[r] = "figure" /\ Running(r)
    /\ figures' = figures \cup {r}
    /\ pc' = [pc EXCEPT ![r] = "indicators"]
    /\ UNCHANGED <<request, data, df, addplots, processed, plot_kwargs, response,
                   exc, bg_tasks, loop>>

\* addplots = add_indicators(df, request.indicators) if request.indicators else []
AddIndicators(r) ==
    /\ pc[r] = "indicators" /\ Running(r)
    /\ LET res == add_indicators(df[r], request[r].indicators) IN
       /\ processed' = [processed EXCEPT ![r] = res.processed]
       /\ df' = [df EXCEPT ![r].RSI = res.RSI]
       /\ IF res.raised
          THEN /\ exc' = [exc EXCEPT ![r] = [type |-> "Exception", at |-> "indicators"]]
               /\ pc' = [pc EXCEPT ![r] = "except"]
               /\ addplots' = addplots
          ELSE /\ addplots' = [addplots EXCEPT ![r] = res.addplots]
               /\ pc' = [pc EXCEPT ![r] = "panels"]
               /\ exc' = exc
    /\ UNCHANGED <<request, data, plot_kwargs, response, figures,
                   bg_tasks, loop>>

oscillator_types == <<"macd", "rsi", "atr", "stochastic">>

\* An addplot entry is the dict mpf.make_addplot returns: its settings are
\* keys of the dict, not attributes of the object.
\* getattr(plot, 'name', '').lower()
plot_name(plot) == ""
\* Mutant of has_panel: the entry's panel read as if it were an attribute.
has_panel_attribute(plot) == TRUE
\* hasattr(plot, 'panel') and plot.panel is not None
has_panel(plot) == FALSE
\* osc_type in plot_name.  The only plot name there is, the empty string,
\* contains no oscillator type.
Contains(name, osc_type) == name /= "" /\ name = osc_type

\* The first oscillator type whose name the plot name contains (0: none).
MatchingType(plot) ==
    LET hits == {t \in DOMAIN oscillator_types :
                    Contains(plot_name(plot), oscillator_types[t])}
    IN IF hits = {} THEN 0 ELSE CHOOSE t \in hits : \A u \in hits : t <= u

\* oscillator_groups, as the list of the types met, in the order first met.
RECURSIVE GroupOrder(_, _, _)
GroupOrder(plots, i, order) ==
    IF i > Len(plots) THEN order
    ELSE LET t == IF has_panel(plots[i]) THEN 0 ELSE MatchingType(plots[i]) IN
         IF t = 0 \/ \E j \in DOMAIN order : order[j] = t
         THEN GroupOrder(plots, i + 1, order)
         ELSE GroupOrder(plots, i + 1, Append(order, t))

\* for osc_type, plot_indices in oscillator_groups.items():
\*     for idx in plot_indices: addplots[idx].panel = panel_count
\*     panel_count += 1
Regroup(plots) ==
    LET order == GroupOrder(plots, 1, <<>>)
        Rank(t) == CHOOSE j \in DOMAIN order : order[j] = t
    IN [i \in DOMAIN plots |->
          LET t == IF has_panel(plots[i]) THEN 0 ELSE MatchingType(plots[i]) IN
          IF t = 0 THEN plots[i]
          ELSE [plots[i] EXCEPT !.panel = FirstOscillatorPanel + Rank(t) - 1]]

\* if request.indicators and request.separate_oscillators: <regroup>
AssignPanels(r) ==
    /\ pc[r] = "panels" /\ Running(r)
    /\ addplots' = [addplots EXCEPT ![r] =
          IF Len(request[r].indicators) > 0 /\ request[r].separate_oscillators
          THEN Regroup(addplots[r]) ELSE addplots[r]]
    /\ pc' = [pc EXCEPT ![r] = "kwargs"]
    /\ UNCHANGED <<request, data, df, processed, plot_kwargs, response, exc,
                   figures, bg_tasks, loop>>

\* max_panel: the highest plot.panel among the plots that have the attribute
RECURSIVE MaxPanel(_, _, _)
MaxPanel(plots, i, max_panel) ==
    IF i > Len(plots) THEN max_panel
    ELSE MaxPanel(plots, i + 1,
                  IF has_panel(plots[i]) THEN Max(max_panel, plots[i].panel)
                  ELSE max_panel)

\* Mutant of TotalPanels: the volume panel is not counted.
TotalPanelsMainOnly(plots, volume) == Max(1, MaxPanel(plots, 1, 0) + 1)

\* panels_needed = 1 (+ 1 with volume); total_panels = max(panels_needed, max_panel + 1)
TotalPanels(plots, volume) ==
    Max(1 + (IF volume THEN 1 ELSE 0), MaxPanel(plots, 1, 0) + 1)

\* panel_ratios = [4] + [1] * (total_panels - 1)
PanelRatios(total_panels) ==
    [i \in 1..total_panels |-> IF i = 1 THEN MainRatio ELSE OtherRatio]

\* plot_kwargs: volume, volume_panel and panel_ratios (absent: <<>>).
\* volume = True
BuildPlotKwargs(r) ==
    /\ pc[r] = "kwargs" /\ Running(r)
    /\ plot_kwargs' = [plot_kwargs EXCEPT ![r] =
          [volume |-> TRUE,
           volume_panel |-> VolumePanel,
           panel_ratios |-> IF request[r].separate_oscillators
                            THEN PanelRatios(TotalPanels(addplots[r], TRUE))
                            ELSE <<>>]]
    /\ pc' = [pc EXCEPT ![r] = "plot"]
    /\ UNCHANGED <<request, data, df, addplots, processed, response, exc,
                   figures, bg_tasks, loop>>

\* mpf.plot(df, **plot_kwargs): the renderer draws the chart, or raises.
PlotReturns(r) ==
    /\ pc[r] = "plot" /\ Running(r)
    /\ pc' = [pc EXCEPT ![r] = "encode"]
    /\ UNCHANGED <<request, data, df, addplots, processed, plot_kwargs, response,
                   exc, figures, bg_tasks, loop>>

PlotRaises(r) ==
    /\ pc[r] = "plot" /\ Running(r)
    /\ \E t \in {"ValueError", "Exception"} :
          exc' = [exc EXCEPT ![r] = [type |-> t, at |-> "plot"]]
    /\ pc' = [pc EXCEPT ![r] = "except"]
    /\ UNCHANGED <<request, data, df, addplots, processed, plot_kwargs, response,
                   figures, bg_tasks, loop>>

\* "indicators_applied": list(request.indicators.keys()) if request.indicators else []
indicators_applied(indicators) == [i \in DOMAIN indicators |-> indicators[i].name]

\* plt.close('all'); return {"success": True, ..., "data_points": len(df), ...}
Respond(r) ==
    /\ pc[r] = "encode" /\ Running(r)
    /\ figures' = {}
    /\ response' = [response EXCEPT ![r] =
          [status |-> 200,
           data_points |-> Len(df[r].index),
           indicators_applied |-> indicators_applied(request[r].indicators)]]
    /\ pc' = [pc EXCEPT ![r] = "done"]
    /\ loop' = 0
    /\ UNCHANGED <<request, data, df, addplots, processed, plot_kwargs, exc,
                   bg_tasks>>

\* except ValueError as ve: plt.close('all'); raise HTTPException(status_code=400)
ExceptValueError(r) ==
    /\ pc[r] = "except" /\ Running(r)
    /\ exc[r].type = "ValueError"
    /\ figures' = {}
    /\ response' = [response EXCEPT ![r] = [status |-> 400]]
    /\ pc' = [pc EXCEPT ![r] = "failed"]
    /\ loop' = 0
    /\ UNCHANGED <<request, data, df, addplots, processed, plot_kwargs, exc,
                   bg_tasks>>

\* Mutant of ExceptException: the handler of unexpected errors does not close
\* the figures.
ExceptExceptionNoClose(r) ==
    /\ pc[r] = "except" /\ Running(r)
    /\ exc[r].type /= "ValueError"
    /\ response' = [response EXCEPT ![r] = [status |-> 500]]
    /\ pc' = [pc EXCEPT ![r] = "failed"]
    /\ loop' = 0
    /\ UNCHANGED <<request, data, df, addplots, processed, plot_kwargs, exc,
                   figures, bg_tasks>>

\* except Exception as e: plt.close('all'); raise HTTPException(status_code=500)
ExceptException(r) ==
    /\ pc[r] = "except" /\ Running(r)
    /\ exc[r].type /= "ValueError"
    /\ figures' = {}
    /\ response' = [response EXCEPT ![r] = [status |-> 500]]
    /\ pc' = [pc EXCEPT ![r] = "failed"]
    /\ loop' = 0
    /\ UNCHANGED <<request, data, df, addplots, processed, plot_kwargs, exc,
                   bg_tasks>>

\* cleanup_resources(): plt.close('all'); gc.collect().  The task runs in a
\* worker thread once the handler's response has been sent.
CleanupResources(r) ==
    /\ r \in bg_tasks /\ pc[r] = "done"
    /\ figures' = {}
    /\ bg_tasks' = bg_tasks \ {r}
    /\ UNCHANGED <<request, data, df, addplots, processed, plot_kwargs, response,
                   exc, pc, loop>>

Next ==
    \E r \in Reqs :
        \/ Reject(r)
        \/ Receive(r)
        \/ ConvertData(r)
        \/ OpenFigure(r)
        \/ AddIndicators(r)
        \/ AssignPanels(r)
        \/ BuildPlotKwargs(r)
        \/ PlotReturns(r)
        \/ PlotRaises(r)
        \/ Respond(r)
        \/ ExceptValueError(r)
        \/ ExceptException(r)
        \/ CleanupResources(r)

\* ------------------------------------------------------------------ inputs

\* The bars a client supplies: n rows, identified by their position; `bad` are
\* the rows whose datetime does not parse, `flat` says that high = low on
\* every row.
\* `close` gives the close price of each row.
Bars(close, bad, flat) ==
    [data |-> [i \in DOMAIN close |-> i], close |-> close, bad |-> bad,
     flat |-> flat]

\* n rows whose close rises by 1 a row.
Table(n, bad, flat) == Bars([i \in 1..n |-> i], bad, flat)

Entry(name, params) == [name |-> name, params |-> params]
NoParams == <<>>

\* The (name, params) items the input families are built from.
Entries ==
    { Entry("sma", NoParams), Entry("sma", [period |-> Num(3)]),
      Entry("sma", [period |-> Str("abc")]), Entry("sma", [period |-> Num(0)]),
      Entry("ema", NoParams),
      Entry("rsi", NoParams), Entry("rsi", [period |-> Num(3)]),
      Entry("rsi", [period |-> Num(0)]), Entry("rsi", [period |-> Num(-1)]),
      Entry("RSI", NoParams),
      Entry("macd", NoParams), Entry("macd", [fast |-> Num(0)]),
      Entry("bollinger", NoParams), Entry("bollinger", [period |-> Num(1)]),
      Entry("bollinger", [std_dev |-> Str("abc")]),
      Entry("atr", NoParams), Entry("atr", [period |-> Str("abc")]),
      Entry("stochastic", NoParams),
      Entry("stochastic", [k_period |-> Num(2), d_period |-> Num(1)]),
      Entry("vwap", NoParams), Entry("obv", NoParams) }

\* The items of the exhaustive family.
ShortEntries ==
    { Entry("sma", NoParams), Entry("sma", [period |-> Str("abc")]),
      Entry("rsi", NoParams), Entry("rsi", [period |-> Num(0)]),
      Entry("rsi", [period |-> Num(-1)]), Entry("RSI", NoParams),
      Entry("ema", NoParams),
      Entry("macd", NoParams), Entry("macd", [fast |-> Num(0)]),
      Entry("bollinger", [period |-> Num(1)]),
      Entry("atr", NoParams), Entry("atr", [period |-> Str("abc")]),
      Entry("stochastic", [k_period |-> Num(2), d_period |-> Num(1)]),
      Entry("vwap", NoParams) }

\* The items of the paired family.
PairEntries ==
    { Entry("rsi", NoParams), Entry("rsi", [period |-> Num(0)]),
      Entry("rsi", [period |-> Str("abc")]),
      Entry("macd", NoParams), Entry("macd", [fast |-> Num(0)]),
      Entry("atr", NoParams), Entry("atr", [period |-> Num(3)]),
      Entry("sma", NoParams) }

\* An indicator mapping is a dict: its keys are distinct.
DistinctNames(l) == \A i, j \in DOMAIN l : i /= j => l[i].name /= l[j].name

ListsOver(E, k) ==
    UNION { {l \in [1..m -> E] : DistinctNames(l)} : m \in 0..k }

ShortLists == ListsOver(ShortEntries, MaxShort)
UnitLists == ListsOver(Entries, 1)
PairLists == ListsOver(PairEntries, MaxPair)

AllNames ==
    <<"sma", "ema", "rsi", "macd", "bollinger", "atr", "stochastic", "RSI",
      "vwap", "obv">>

Rotate(s, k) == [i \in 1..Len(s) |-> s[((i + k - 1) % Len(s)) + 1]]

\* Parameters on which the branch of `name` raises.
FailParams(name) ==
    CASE name = "rsi" -> [period |-> Num(-1)]
      [] name = "macd" -> [slow |-> Num(0)]
      [] name = "bollinger" -> [std_dev |-> Str("abc")]
      [] name = "stochastic" -> [k_period |-> Str("abc")]
      [] OTHER -> [period |-> Str("abc")]

\* Mappings of about MaxIndicators items: every rotation of AllNames, cut to
\* len items, all with default parameters but (f > 0) the f-th.
LongLists ==
    { [i \in 1..len |->
         Entry(Rotate(AllNames, k)[i],
               IF i = f THEN FailParams(Rotate(AllNames, k)[i]) ELSE NoParams)] :
      k \in 0..(Len(AllNames) - 1),
      len \in (MaxIndicators - 1)..(MaxIndicators + 2),
      f \in 0..(MaxIndicators + 2) }

Req(t, l, sep) ==
    [data |-> t.data, close |-> t.close, bad |-> t.bad, flat |-> t.flat,
     indicators |-> l,
     separate_oscillators |-> sep]

ShortTables == { Table(5, {}, FALSE), Table(20, {}, FALSE) }
LongTables == { Table(4, {}, FALSE), Table(5, {}, FALSE), Table(20, {}, FALSE) }
MiscTables ==
    { Table(0, {}, FALSE), Table(3, {}, FALSE), Table(4, {}, FALSE),
      Table(5, {}, FALSE), Table(5, {2}, FALSE), Table(20, {}, FALSE),
      Table(20, {}, TRUE) }
\* Tables around the cap of 400 bars and the limit of 500 items.
BigTables ==
    { Table(MaxDataPoints - 1, {}, FALSE),
      Table(MaxDataPoints, {}, FALSE),
      Table(MaxDataPoints + 1, {}, FALSE),
      Table(MaxDataPoints + 1, {1}, FALSE),
      Table(MaxDataPoints + 1, {MaxDataPoints + 1}, FALSE),
      Table(MaxItems, {}, FALSE),
      Table(MaxItems + 1, {}, FALSE) }
BigLists ==
    { <<>>, <<Entry("sma", NoParams)>>,
      <<Entry("rsi", NoParams), Entry("stochastic", NoParams)>> }
PairTables == { Table(20, {}, FALSE) }

Requests ==
    { Req(t, l, TRUE) : t \in ShortTables, l \in ShortLists }
    \cup { Req(t, l, TRUE) : t \in LongTables, l \in LongLists }
    \cup { Req(t, l, sep) : t \in MiscTables, l \in UnitLists, sep \in BOOLEAN }
    \cup { Req(t, l, sep) : t \in BigTables, l \in BigLists, sep \in BOOLEAN }

\* Two requests with the same bars, the same indicator names in the same
\* order and the same flags: they differ at most in parameter values.
SameNames(l1, l2) ==
    /\ Len(l1) = Len(l2)
    /\ \A i \in DOMAIN l1 : l1[i].name = l2[i].name

RequestPairs ==
    { p \in { <<Req(t, l1, sep), Req(t, l2, sep)>> :
              t \in PairTables, sep \in BOOLEAN,
              l1 \in PairLists, l2 \in PairLists } :
      SameNames(p[1].indicators, p[2].indicators) }
    \cup { <<Req(Table(MaxItems + 1, {}, FALSE), <<>>, TRUE),
             Req(Table(MaxItems + 1, {}, FALSE), <<>>, TRUE)>> }

\* ------------------------------------------------------------ specifications

InitLocals ==
    /\ data = [r \in Reqs |-> <<>>]
    /\ df = [r \in Reqs |-> NoDf]
    /\ addplots = [r \in Reqs |-> <<>>]
    /\ processed = [r \in Reqs |-> <<>>]
    /\ plot_kwargs = [r \in Reqs |-> NoKwargs]
    /\ response = [r \in Reqs |-> NoResponse]
    /\ exc = [r \in Reqs |-> NoExc]
    /\ pc = [r \in Reqs |-> "idle"]
    /\ figures = {}
    /\ bg_tasks = {}
    /\ loop = 0

\* One client request, any of Requests.
Init ==
    /\ \E q \in Requests :
          request = [r \in Reqs |-> IF r = 1 THEN q ELSE NoRequest]
    /\ InitLocals

Spec == Init /\ [][Next]_vars

\* Two client requests that differ at most in parameter values.
InitPair ==
    /\ \E p \in RequestPairs :
          request = [r \in Reqs |-> IF r <= 2 THEN p[r] ELSE NoRequest]
    /\ InitLocals

SpecPair == InitPair /\ [][Next]_vars

\* One SMA request for every table of 1..MaxSmaBars bars and every period
\* 1..MaxSmaPeriod, and a request that validation refuses.
SmaRequests ==
    { Req(Table(n, {}, FALSE), <<Entry("sma", [period |-> Num(p)])>>, TRUE) :
      n \in 1..MaxSmaBars, p \in 1..MaxSmaPeriod }
    \cup { Req(Table(MaxItems + 1, {}, FALSE), <<>>, TRUE) }

InitSma ==
    /\ \E q \in SmaRequests :
          request = [r \in Reqs |-> IF r = 1 THEN q ELSE NoRequest]
    /\ InitLocals

SpecSma == InitSma /\ [][Next]_vars

\* One RSI request for every series of MinDataPoints..MaxRsiBars close prices
\* in 1..MaxClose and every period 1..MaxRsiPeriod or none (the default, 14),
\* and a request that validation refuses.
RsiRequests ==
    { Req(Bars(c, {}, FALSE), <<Entry("rsi", p)>>, TRUE) :
      c \in UNION { [1..n -> 1..MaxClose] : n \in MinDataPoints..MaxRsiBars },
      p \in { [period |-> Num(w)] : w \in 1..MaxRsiPeriod } \cup { NoParams } }
    \cup { Req(Table(MaxItems + 1, {}, FALSE), <<>>, TRUE) }

InitRsi ==
    /\ \E q \in RsiRequests :
          request = [r \in Reqs |-> IF r = 1 THEN q ELSE NoRequest]
    /\ InitLocals

SpecRsi == InitRsi /\ [][Next]_vars

\* ---------------------------------------------------------------- layouts

\* The layout of request r has been handed to the renderer (mpf.plot called).
Handed(r) ==
    \/ pc[r] \in {"plot", "encode", "done"}
    \/ pc[r] \in {"except", "failed"} /\ exc[r].at = "plot"

\* add_indicators has returned to the handler of request r.
Computed(r) == pc[r] \in {"panels", "kwargs"} \/ Handed(r)

OscillatorFamilies == {"rsi", "macd", "atr", "stochastic"}

\* The oscillator family of a series, by its column ("main": none).
SeriesFamily(col) ==
    CASE col = "RSI" -> "rsi"
      [] col \in {"MACD_line", "MACD_signal", "MACD_histogram"} -> "macd"
      [] col = "ATR" -> "atr"
      [] col \in {"STOCH_K", "STOCH_D"} -> "stochastic"
      [] OTHER -> "main"

Plots(r) == {addplots[r][i] : i \in DOMAIN addplots[r]}
OscPlots(r) == {p \in Plots(r) : SeriesFamily(p.data) \in OscillatorFamilies}
MainPlots(r) == {p \in Plots(r) : SeriesFamily(p.data) = "main"}
FamiliesPresent(r) == {SeriesFamily(p.data) : p \in OscPlots(r)}
PanelsOf(r, f) == {p.panel : p \in {q \in OscPlots(r) : SeriesFamily(q.data) = f}}

\* Position of the first requested indicator of family f.
FirstRequested(r, f) ==
    LET at == {i \in DOMAIN request[r].indicators :
                  Lower(request[r].indicators[i].name) = f}
    IN CHOOSE i \in at : \A j \in at : i <= j

\* Rank of family f among the families present, by first request.
FamilyRank(r, f) ==
    Cardinality({g \in FamiliesPresent(r) :
                    FirstRequested(r, g) <= FirstRequested(r, f)})

\* C1: with separate_oscillators, every series handed to the renderer has a
\* panel index below len(panel_ratios).
C1_PanelsWithinRatios ==
    \A r \in Reqs :
        Handed(r) /\ request[r].separate_oscillators =>
            \A p \in Plots(r) : p.panel < Len(plot_kwargs[r].panel_ratios)

\* C2: with separate_oscillators, len(panel_ratios) is 1 for the main panel,
\* plus 1 for volume, plus the number of oscillator families with a series.
C2_PanelCount ==
    \A r \in Reqs :
        Handed(r) /\ request[r].separate_oscillators =>
            Len(plot_kwargs[r].panel_ratios) =
                1 + (IF plot_kwargs[r].volume THEN 1 ELSE 0)
                  + Cardinality(FamiliesPresent(r))

\* C3: with separate_oscillators, the families with a series get the panels
\* 2, 3, ... in the order their families are first requested, without a gap.
C3_ConsecutivePanels ==
    \A r \in Reqs :
        Handed(r) /\ request[r].separate_oscillators =>
            /\ \A p \in OscPlots(r) :
                  p.panel = FirstOscillatorPanel
                            + FamilyRank(r, SeriesFamily(p.data)) - 1
            /\ \A k \in FirstOscillatorPanel..
                        (FirstOscillatorPanel + Cardinality(FamiliesPresent(r)) - 1) :
                  \E p \in OscPlots(r) : p.panel = k

\* C4: in every layout, two oscillator series share a panel exactly when they
\* are of the same family, oscillator series are on panels >= 2, and the
\* main-class series (SMA, EMA, Bollinger bands) are on panel 0.
C4_FamilyPanels ==
    \A r \in Reqs :
        Handed(r) =>
            /\ \A p, q \in OscPlots(r) :
                  (p.panel = q.panel) <=> (SeriesFamily(p.data) = SeriesFamily(q.data))
            /\ \A p \in OscPlots(r) : p.panel >= FirstOscillatorPanel
            /\ \A p \in MainPlots(r) : p.panel = 0

\* A layout with main-class series, two series of one family, and a second
\* family.
C4_Witness ==
    /\ Handed(1)
    /\ MainPlots(1) /= {}
    /\ {"macd", "atr"} \subseteq FamiliesPresent(1)
    /\ \E p, q \in OscPlots(1) : p.data /= q.data /\ p.panel = q.panel

NamesWithSeries(r) == {p.key : p \in Plots(r)}
Range(s) == {s[i] : i \in DOMAIN s}

\* C6: indicators_applied holds exactly the requested names with at least one
\* computed series, and no request fails in the indicator step.
C6_AppliedAreComputed ==
    \A r \in Reqs :
        /\ response[r].status = 200 =>
              Range(response[r].indicators_applied) = NamesWithSeries(r)
        /\ exc[r].at /= "indicators"

\* What the other indicators produce: the plots of the branches, in request
\* order, of the items among the first MaxIndicators whose branch does not
\* raise.
RECURSIVE SeriesOfOthers(_, _, _, _)
SeriesOfOthers(indicators, i, n, flat) ==
    IF i > Len(indicators) \/ i > MaxIndicators THEN <<>>
    ELSE (IF Branch(indicators[i], n, flat).raised THEN <<>>
          ELSE Branch(indicators[i], n, flat).plots)
         \o SeriesOfOthers(indicators, i + 1, n, flat)

\* The positions, among those the loop processed, whose branch raises.
RaisingAt(r) ==
    {i \in DOMAIN processed[r] :
        Branch(request[r].indicators[i], Len(df[r].index), df[r].flat).raised}

\* C7: when the computation of an indicator raises, add_indicators returns
\* the series of all the other indicators among the first 8, and the request
\* does not fail in the indicator step.
C7_FailureIsolated ==
    \A r \in Reqs :
        /\ exc[r].at /= "indicators"
        /\ Computed(r) /\ RaisingAt(r) /= {} =>
              addplots[r] = SeriesOfOthers(request[r].indicators, 1,
                                           Len(df[r].index), df[r].flat)

\* An indicator raised between two others that have their series.
C7_Witness ==
    /\ Computed(1)
    /\ \E i \in RaisingAt(1) :
          /\ \E p \in Plots(1) : \E j \in 1..(i - 1) :
                p.key = request[1].indicators[j].name
          /\ \E p \in Plots(1) : \E j \in (i + 1)..Len(processed[1]) :
                p.key = request[1].indicators[j].name

\* The names of the first k requested indicators, in request order.
FirstNames(r, k) ==
    [i \in 1..Min(k, Len(request[r].indicators)) |-> request[r].indicators[i].name]

\* C8 as stated: add_indicators processes the first 8 requested indicators
\* (all of them when there are 8 or fewer), in request order.
C8_FirstEightProcessed ==
    \A r \in Reqs :
        Computed(r) => processed[r] = FirstNames(r, MaxIndicators)

\* C8 amended: with at least 5 bars, add_indicators processes the first 8
\* requested indicators (all when 8 or fewer) in request order and no later
\* one; with fewer than 5 bars it processes none.
C8_FirstEightIfEnoughBars ==
    \A r \in Reqs :
        Computed(r) =>
            processed[r] = IF Len(df[r].index) >= MinDataPoints
                           THEN FirstNames(r, MaxIndicators)
                           ELSE <<>>

\* More than 8 indicators were requested on enough bars and 8 were processed.
C8_Witness ==
    /\ Computed(1)
    /\ Len(request[1].indicators) > MaxIndicators
    /\ Len(df[1].index) >= MinDataPoints
    /\ Len(processed[1]) = MaxIndicators

\* The handler of request r has taken the request.
Taken(r) == pc[r] \notin {"idle", "rejected"}

\* C9: of more than 400 supplied bars the handler uses the last 400, in their
\* order, and reports data_points = 400; 400 bars or fewer are used unchanged.
C9_LastBarsKept ==
    \A r \in Reqs :
        Taken(r) =>
            LET n == Len(request[r].data)
                kept == IF n > MaxDataPoints THEN MaxDataPoints ELSE n
            IN /\ Len(data[r]) = kept
               /\ \A i \in 1..kept : data[r][i] = request[r].data[n - kept + i]
               /\ (pc[r] \notin {"convert", "except", "failed"} => df[r].index = data[r])
               /\ (response[r].status = 200 => response[r].data_points = kept)

\* A request with more than 400 bars was answered with data_points = 400.
C9_Witness ==
    /\ Len(request[1].data) > MaxDataPoints
    /\ response[1].status = 200
    /\ response[1].data_points = MaxDataPoints
    /\ df[1].index[1] = Len(request[1].data) - MaxDataPoints + 1

\* The bar data the handler converts is empty or has a row that does not parse.
InvalidBars(r) ==
    Taken(r) /\ (Len(data[r]) = 0 \/ \E i \in DOMAIN data[r] : data[r][i] \in request[r].bad)

\* C10: a request whose bar data is empty or does not parse ends in status
\* 400, never in 500 and never in success.
C10_InvalidBarsGive400 ==
    \A r \in Reqs :
        InvalidBars(r) =>
            /\ pc[r] \in {"convert", "except", "failed"}
            /\ response[r].status \in {0, 400}
            /\ (pc[r] = "failed" => response[r].status = 400)

\* A request whose bar data is empty or has an unparsable row was answered 400.
C10_Witness ==
    /\ InvalidBars(1) /\ response[1].status = 400


\* Request r has 3 bars, all parsable, and asks for MACD with default
\* parameters.
ThreeBarsMacd(r) ==
    /\ Taken(r)
    /\ Len(request[r].data) = 3 /\ request[r].bad = {}
    /\ request[r].indicators = <<Entry("macd", NoParams)>>

\* C11: 3 bars and MACD with default parameters: no MACD series is produced,
\* the handler raises nothing of its own (the request succeeds once the
\* renderer returns), and with separate_oscillators panel_ratios is (4, 1),
\* the main and the volume panel.
C11_ThreeBarsMacd ==
    \A r \in Reqs :
        ThreeBarsMacd(r) =>
            /\ addplots[r] = <<>>
            /\ (pc[r] \in {"except", "failed"} => exc[r].at = "plot")
            /\ (pc[r] = "done" => response[r].status = 200)
            /\ (Handed(r) /\ request[r].separate_oscillators =>
                   plot_kwargs[r].panel_ratios = <<MainRatio, OtherRatio>>)

\* Such a request was answered with success.
C11_Witness ==
    /\ ThreeBarsMacd(1)
    /\ request[1].separate_oscillators
    /\ response[1].status = 200
    /\ plot_kwargs[1].panel_ratios = <<4, 1>>


\* Request r asks for SMA alone, with a period p >= 1, on N >= 1 bars.
SmaRequest(r) ==
    /\ Computed(r)
    /\ Len(df[r].index) >= 1
    /\ Len(request[r].indicators) = 1
    /\ request[r].indicators[1].name = "sma"
    /\ "period" \in DOMAIN request[r].indicators[1].params
    /\ request[r].indicators[1].params.period.num >= 1

SmaPlots(r) == {i \in DOMAIN addplots[r] : addplots[r][i].data = "SMA"}

\* The effective window w = min(p, max(1, N - 1)) and the number of non-NaN
\* points max(0, N - w + 1) the claim gives for request r.
SmaWindow(r) ==
    Min(request[r].indicators[1].params.period.num, Max(1, Len(df[r].index) - 1))
SmaPoints(r) == Max(0, Len(df[r].index) - SmaWindow(r) + 1)

\* C12 as stated: for N >= 1 bars and a period p >= 1, SMA has exactly
\* max(0, N - w + 1) non-NaN points, and the series is omitted only when that
\* number is zero.
C12_SmaPoints ==
    \A r \in Reqs :
        SmaRequest(r) =>
            IF SmaPoints(r) = 0 THEN SmaPlots(r) = {}
            ELSE /\ Cardinality(SmaPlots(r)) = 1
                 /\ \A i \in SmaPlots(r) : addplots[r][i].valid = SmaPoints(r)

\* C12 amended: the same for N >= 5 bars; for fewer than 5 bars the SMA
\* series is omitted whatever the number of points.
C12_SmaPointsIfEnoughBars ==
    \A r \in Reqs :
        SmaRequest(r) =>
            IF SmaPoints(r) = 0 \/ Len(df[r].index) < MinDataPoints
            THEN SmaPlots(r) = {}
            ELSE /\ Cardinality(SmaPlots(r)) = 1
                 /\ \A i \in SmaPlots(r) : addplots[r][i].valid = SmaPoints(r)

\* SMA was computed with a period longer than the table allows, and with a
\* period the table holds.
C12_Witness ==
    /\ SmaRequest(1)
    /\ Len(df[1].index) = MinDataPoints + 1
    /\ request[1].indicators[1].params.period.num > Len(df[1].index)
    /\ \E i \in SmaPlots(1) : addplots[1][i].valid = 2


\* The call of request r has left generate_chart, by return or by raise.
Left(r) == pc[r] \in {"done", "failed"}

\* C14: once the call has left generate_chart, by a normal return, a 400 or a
\* 500, the figure it opened is closed.
C14_FigureReleasedOnExit ==
    \A r \in Reqs : Left(r) => r \notin figures

\* The renderer raised an unexpected error after the figure was opened, and the
\* call answered 500.
C14_Witness ==
    /\ pc[1] = "failed" /\ response[1].status = 500
    /\ exc[1].at = "plot"
    /\ 1 \notin figures


\* The call of request r has entered generate_chart and has not left it.
InFlight(r) ==
    pc[r] \in {"convert", "figure", "indicators", "panels", "kwargs", "plot",
               "encode", "except"}

\* The step is not one of request r: neither a step of its call nor its
\* cleanup_resources task.
StepOfAnother(r) ==
    /\ pc'[r] = pc[r]
    /\ (r \in bg_tasks') = (r \in bg_tasks)

\* C15: a step of one request, its cleanup_resources task included, changes
\* neither the figure nor the result of another request that is in flight.
C15_NoInterference ==
    [][\A r \in Reqs :
          InFlight(r) /\ StepOfAnother(r) =>
              /\ (r \in figures') = (r \in figures)
              /\ response'[r] = response[r]
              /\ addplots'[r] = addplots[r]
              /\ plot_kwargs'[r] = plot_kwargs[r]]_vars


\* Request r asked for RSI alone and df['RSI'] holds its values.
RsiRequest(r) ==
    /\ Computed(r)
    /\ Len(request[r].indicators) = 1
    /\ request[r].indicators[1].name = "rsi"
    /\ df[r].RSI /= <<>>

\* The trailing window of request r.
RsiWindow(r) ==
    Min(Get(request[r].indicators[1].params, "period", Num(14)).num,
        Max(2, Len(df[r].index) - 1))

\* The rows of the window that ends at row i which have a close-to-close
\* change (the first row of the table has none).
Changes(r, i) == {j \in (i - RsiWindow(r) + 1)..i : j >= 2}
AllGains(r, i) ==
    /\ Changes(r, i) /= {}
    /\ \A j \in Changes(r, i) : df[r].close[j] > df[r].close[j - 1]
AllLosses(r, i) ==
    /\ Changes(r, i) /= {}
    /\ \A j \in Changes(r, i) : df[r].close[j] < df[r].close[j - 1]

\* a * E + b >= 0, for <<a, b>> with |b| < E.
NonNegative(x) == x[1] > 0 \/ (x[1] = 0 /\ x[2] >= 0)
\* v = k, 0 <= v and v <= k for a value v with a positive denominator.
ValueIs(v, k) == v.num = <<k * v.den[1], k * v.den[2]>>
ValueAtLeastZero(v) == NonNegative(v.num)
ValueAtMost(v, k) ==
    NonNegative(<<k * v.den[1] - v.num[1], k * v.den[2] - v.num[2]>>)

NonNaNRows(r) == {i \in DOMAIN df[r].RSI : ~df[r].RSI[i].nan}

\* Every non-NaN RSI value lies in [0, 100].
RsiBounded ==
    \A r \in Reqs : RsiRequest(r) =>
        \A i \in NonNaNRows(r) :
            ValueAtLeastZero(df[r].RSI[i]) /\ ValueAtMost(df[r].RSI[i], 100)
\* RSI is 0 where all changes of the window are losses.
RsiZeroOnLosses ==
    \A r \in Reqs : RsiRequest(r) =>
        \A i \in NonNaNRows(r) : AllLosses(r, i) => ValueIs(df[r].RSI[i], 0)
\* RSI is 100 where all changes of the window are gains.
RsiHundredOnGains ==
    \A r \in Reqs : RsiRequest(r) =>
        \A i \in NonNaNRows(r) : AllGains(r, i) => ValueIs(df[r].RSI[i], 100)

\* C13: every non-NaN RSI value lies in [0, 100], is 100 when all changes in
\* the trailing window are gains and 0 when all of them are losses.
C13_RsiValues == RsiBounded /\ RsiHundredOnGains /\ RsiZeroOnLosses

\* A window of gains only whose RSI value is below 100.
RsiBelowHundredOnGains ==
    \E i \in NonNaNRows(1) :
        /\ AllGains(1, i)
        /\ ~ValueIs(df[1].RSI[i], 100)
        /\ ValueAtMost(df[1].RSI[i], 100)

====
